---- MODULE Spec2Model ----
(***************************************************************************)
(* Pet-profile backend proxy (Express server in front of the Shopify Admin *)
(* GraphQL API).  Two copies of the server are in the repository: the      *)
(* current one (src/unnamed/part_003, lines 1-416) and the earlier one     *)
(* (src/shopify-app/server.js).  The variable `variant` says which copy is *)
(* deployed.  Every request handler is an async function; one action of    *)
(* the model is one upstream reply together with the handler code that     *)
(* runs until the next await.  The second half of the module is the        *)
(* storefront side: the form, stepper and completion components of the     *)
(* theme (src/assets, src/unnamed/part_000) and the localStorage items     *)
(* they share, under the specification FrontSpec.                          *)
(***************************************************************************)
EXTENDS Integers, Sequences, FiniteSets, TLC

(* ------------------------------ bounds --------------------------------- *)
\* number of HTTP requests the proxy receives in one behaviour
MaxReq == 2
\* number of pet profiles created before the behaviour starts
InitialPets == 1

\* number of upstream replies in one behaviour that are a fault or a rejection
\* the upstream was free not to give
MaxUpsets == 2

\* number of requests the proxy has in flight at the same time
MaxInFlight == 2

\* browser tabs the visitor has open on the shop
MaxTabs == 2
\* page loads, clicks on a submit or retry button, and redirects to the login
\* page (which save the stepper's form first) in one behaviour
MaxLoads == 2
MaxClicks == 1
MaxSaves == 1
\* hours that pass in one behaviour, two at a time
MaxClock == 2

\* pet profiles of customer c1 in the store when its pet list is looked at
ListedPets == 2
\* loads of the pet list page, and DELETE requests of one page
MaxListLoads == 2
MaxDeletes == 2

Slots == 1..MaxReq
Tabs == 1..MaxTabs
\* metaobject identifiers the upstream can hand out (one per create at most)
Ids == 1..(InitialPets + MaxReq)

(* --------------------------- request inputs ---------------------------- *)
Variants == {"part_003", "shopify_app"}

\* customers that exist in the upstream store
ExistingCustomers == {"c1", "c2"}
\* a customer id that no upstream customer has
UnknownCustomer == "c9"
\* req.body without the property (JavaScript undefined)
Undefined == "undefined"
CustomerIdInputs == ExistingCustomers \cup {UnknownCustomer, Undefined}

None == <<>>
Some(x) == <<x>>

PetBuddy ==
  [name |-> "Buddy", type |-> "dog", birthday |-> "2020-01-01", breed |-> "Lab",
   weight |-> "medium", allergies |-> Some(<<"beef">>),
   health_boost |-> "joint", healthBoost |-> Undefined]
PetTom ==
  [name |-> "Tom", type |-> "cat", birthday |-> Undefined, breed |-> "",
   weight |-> "cat", allergies |-> None,
   health_boost |-> Undefined, healthBoost |-> "calm"]
\* pet_data of a request body: None when the body has no pet_data
PetDataInputs == {None, Some(PetBuddy), Some(PetTom)}

(* ------------------------- upstream replies ---------------------------- *)
OkReply ==
  [kind |-> "json", status |-> "200", text |-> "", errors |-> <<>>, data |-> TRUE]
Unreachable ==
  [kind |-> "unreachable", status |-> "", text |-> "", errors |-> <<>>, data |-> FALSE]
Http503 ==
  [kind |-> "http", status |-> "503", text |-> "Service Unavailable",
   errors |-> <<>>, data |-> FALSE]
GraphQLErrors ==
  [kind |-> "json", status |-> "200", text |-> "", errors |-> <<"Throttled">>,
   data |-> FALSE]
\* a 200 reply whose JSON has neither errors nor data
Malformed ==
  [kind |-> "json", status |-> "200", text |-> "", errors |-> <<>>, data |-> FALSE]
FaultReplies == {Unreachable, Http503, GraphQLErrors, Malformed}
Replies == {OkReply} \cup FaultReplies

\* userErrors lists a mutation can answer with (<<>>: the mutation is accepted)
NameBlank == [field |-> "name", message |-> <<"Name can't be blank">>]
TypeInvalid == [field |-> "type", message |-> <<"Type is invalid">>]
UserErrorLists == {<<>>, <<NameBlank>>, <<TypeInvalid, NameBlank>>}

(* ------------------------------ helpers -------------------------------- *)
\* JavaScript `x || ''` on a string-or-undefined value
OrEmpty(x) == IF x = Undefined \/ x = "" THEN "" ELSE x

RECURSIVE JSONelements(_)
\* the elements of an array, with a comma before each
JSONelements(x) ==
  IF x = <<>> THEN <<>> ELSE <<",", Head(x)>> \o JSONelements(Tail(x))

\* JSON.stringify of an array: the text as its tokens, "[" e1 "," e2 .. "]"
JSONstringify(x) ==
  [json |-> <<"[">> \o (IF x = <<>> THEN <<>> ELSE Tail(JSONelements(x))) \o <<"]">>]
\* JSON.parse of such a text: the tokens at the even places
JSONparse(s) == [k \in 1..((Len(s.json) - 1) \div 2) |-> s.json[2 * k]]

RECURSIVE FilterSeq(_, _)
FilterSeq(s, keep) ==
  IF s = <<>> THEN <<>>
  ELSE IF keep[1] THEN <<Head(s)>> \o FilterSeq(Tail(s), Tail(keep))
       ELSE FilterSeq(Tail(s), Tail(keep))

Count(s, x) == Cardinality({i \in DOMAIN s : s[i] = x})

(* ------------------------------- state --------------------------------- *)
VARIABLES
  variant,       \* which copy of the server is running
  metaobjects,   \* upstream: id -> None | Some(fields of the pet_profile object)
  customerPets,  \* upstream: customer -> None | Some(value of metafield custom.pets)
  nextId,        \* upstream: next metaobject id to hand out
  upsets,        \* upstream: faults and free rejections answered so far
  req,           \* the proxy's requests, by arrival order
  localStorage,  \* browser: the three items the theme's components keep
  tabs,          \* browser: the page each tab shows and its components' state
  createRequests,\* browser: the POSTs to /apps/pet-profile/create, in order
  clock,         \* browser: Date.now(), in hours
  user,          \* what the visitor has done so far
  petList,       \* browser: the page with the customer's pets
  stepper        \* browser: the steps of the signup stepper

server == <<variant, metaobjects, customerPets, nextId, upsets, req>>
browser == <<localStorage, tabs, createRequests, clock, user, petList, stepper>>
vars == <<server, browser>>

NoResponse ==
  [status |-> 0, success |-> "absent", error |-> <<>>, userErrors |-> <<>>,
   details |-> <<>>, metaobject_id |-> 0, pet_data |-> None, pets |-> None,
   deleted_id |-> 0]

IdleRequest ==
  [kind |-> "none", pc |-> "idle",
   customer_id |-> Undefined, pet_data |-> None, petId |-> 0,
   metaobjectId |-> 0, petIds |-> <<>>, results |-> <<>>,
   sent |-> <<>>,           \* responses written to res, in order
   calls |-> <<>>,          \* upstream calls issued, in order
   outstanding |-> 0,       \* upstream calls awaiting their reply
   peak |-> 0,              \* largest value outstanding has had
   faults |-> <<>>,         \* fault replies received, in order
   rejected |-> <<>>,       \* userErrors lists received, in order
   resolved |-> {},         \* positions of petIds whose fetch found an object
   fetched |-> <<>>,        \* the fetches in the order they completed: the
                            \* position in petIds and the object the upstream had
   doneBefore |-> {}]       \* requests that had been answered when this one arrived

(* --------------------------- browser state ----------------------------- *)
\* the three items of window.localStorage the components use
EmptyStorage ==
  [customer_pets |-> None, pet_signup_pending_data |-> None,
   pending_pet_profile |-> None]

\* a tab that shows no page of the theme
ClosedTab ==
  [load |-> 0,              \* which page load this page is (0: none)
   version |-> "none",      \* the form or stepper component on the page
   completion |-> FALSE,    \* <pet-profile-completion> is on the page
   loggedIn |-> FALSE,      \* attribute customer-logged-in = 'true'
   customerId |-> "",       \* attribute customer-id
   pet_signup |-> FALSE,    \* the URL has ?pet_signup=true
   form |-> None,           \* Some(source) once populateFormFields filled the form
   calls |-> 0,             \* calls of handleSubmit on this page
   submit |-> 0,            \* the create request handleSubmit awaits (0: none)
   caller |-> "click",      \* who awaits handleSubmit: click, auto or retry
   authReturn |-> "none",   \* handleAuthenticationReturn: none, delay or done
   profile |-> 0,           \* the request checkForPendingPetProfile awaits
   stepperData |-> 0,       \* the request checkForPendingStepperData awaits
   error |-> None,          \* text of the error message shown
   success |-> FALSE,       \* the success message is shown
   retryButton |-> FALSE,   \* the retry button is shown
   notification |-> None,   \* the completion component's notification
   result |-> "none"]       \* how the last submitPetData settled

\* no page with the pet list or the pet selector is open
NoPetList ==
  [component |-> "none",    \* pet_list (part_002) or pet_selector (part_001)
   loggedIn |-> FALSE,      \* attribute customer-logged-in = 'true'
   customerId |-> "",       \* attribute customer-id
   loading |-> FALSE,       \* loadPets awaits its fetch
   pets |-> <<>>,           \* this.pets as rendered
   petToDelete |-> None,    \* this.petToDelete
   modal |-> FALSE,         \* the delete modal is shown
   deletes |-> <<>>,        \* the DELETE requests of this page, in order
   chosen |-> None,         \* the pet whose delete button was clicked last
   source |-> "none",      \* where this.pets came from: api or cache
   loads |-> 0]             \* page loads so far

\* no stepper page is open
NoStepper ==
  [version |-> "none",      \* which PetSignupStepper the page has
   loggedIn |-> FALSE,      \* attribute customer-logged-in = 'true'
   currentStep |-> 0,       \* this.currentStep
   hidden |-> <<>>,         \* hidden of each step panel
   backHidden |-> TRUE, nextHidden |-> TRUE, submitHidden |-> TRUE,
   filled |-> <<>>,         \* the required inputs of each step are filled
   petName |-> <<>>,        \* this.petName
   titles |-> <<>>,         \* the text of a dynamic question title
   original |-> None,       \* dataset.original of the title
   populated |-> FALSE,     \* populateFormFields has run on this page
   savedName |-> <<>>,      \* the petName of the saved data it used
   skipped |-> FALSE]       \* the skip button of the image step was used

BrowserAtRest ==
  /\ localStorage = EmptyStorage
  /\ tabs = [t \in Tabs |-> ClosedTab]
  /\ createRequests = <<>>
  /\ clock = 0
  /\ user = [loads |-> 0, clicks |-> 0, saves |-> 0]
  /\ petList = NoPetList
  /\ stepper = NoStepper

\* The upstream store at the start: the profiles 1..InitialPets have been
\* created for customer "c1" by earlier successful create requests (so they are
\* in its index, in order), and any of them may have been deleted since.
InitialFields(v) ==
  [name |-> "Rex", type |-> "dog", birthday |-> "", breed |-> "Pug",
   weight |-> "tiny", allergies |-> JSONstringify(<<"soy">>),
   health_boost |-> IF v = "part_003" THEN "skin" ELSE ""]

Init ==
  /\ variant \in Variants
  /\ \E n \in 0..InitialPets, deleted \in SUBSET (1..InitialPets) :
       /\ deleted \subseteq 1..n
       /\ metaobjects = [i \in Ids |-> IF i \in (1..n) \ deleted
                                         THEN Some(InitialFields(variant)) ELSE None]
       /\ customerPets = [c \in ExistingCustomers |->
                            IF c = "c1" /\ n > 0
                              THEN Some(JSONstringify([i \in 1..n |-> i]))
                              ELSE None]
       /\ nextId = n + 1
  /\ upsets = 0
  /\ req = [r \in Slots |-> IdleRequest]
  /\ BrowserAtRest

\* the upstream answers `reply`, and `ue` when it rejects of its own accord
Upstream(reply, ue) ==
  /\ reply # OkReply => ue = <<>>
  /\ IF reply # OkReply \/ ue # <<>>
       THEN upsets < MaxUpsets /\ upsets' = upsets + 1
       ELSE upsets' = upsets

(* ---------------------- handler building blocks ------------------------ *)
\* res.status(..).json(..) followed by the end of the handler
Respond(rq, resp) ==
  [rq EXCEPT !.sent = Append(@, resp), !.pc = "done"]

\* `await shopifyGraphQL(..)`: the call goes out and the handler waits at pc
Call(rq, op, arg, pc) ==
  [rq EXCEPT !.calls = Append(@, [op |-> op, arg |-> arg]),
             !.outstanding = @ + 1,
             !.peak = IF rq.outstanding + 1 > @ THEN rq.outstanding + 1 ELSE @,
             !.pc = pc]

\* the reply of one outstanding call has arrived
Replied(rq, reply, ue) ==
  [rq EXCEPT !.outstanding = @ - 1,
             !.faults = IF reply \in FaultReplies THEN Append(@, reply) ELSE @,
             !.rejected = IF ue # <<>> THEN Append(@, ue) ELSE @]

\* shopifyGraphQL: what the helper does with the upstream's reply
shopifyGraphQL(reply) ==
  IF reply.kind = "unreachable"
    THEN [threw |-> TRUE, name |-> "TypeError", message |-> <<"fetch failed">>]
  ELSE IF reply.kind = "http"
    THEN [threw |-> TRUE, name |-> "Error",
          message |-> <<"GraphQL request failed: ", reply.status, " ", reply.text>>]
  ELSE IF reply.errors # <<>>
    THEN [threw |-> TRUE, name |-> "Error",
          message |-> <<"GraphQL errors: ">> \o reply.errors]
  ELSE [threw |-> FALSE, name |-> "", message |-> <<>>]

\* shopify.graphql of the earlier copy: the client library raises the error
clientGraphql(reply) ==
  IF reply.kind = "unreachable" \/ reply.kind = "http" \/ reply.errors # <<>>
    THEN [threw |-> TRUE, name |-> "Error",
          message |-> <<"client: ", reply.kind, reply.status, reply.text>> \o reply.errors]
  ELSE [threw |-> FALSE, name |-> "", message |-> <<>>]

graphql(v, reply) ==
  IF v = "part_003" THEN shopifyGraphQL(reply) ELSE clientGraphql(reply)

\* reading a property of `response.data` when the reply carried no data
TypeErrorReading(prop) ==
  [threw |-> TRUE, name |-> "TypeError",
   message |-> <<"Cannot read properties of undefined (reading '", prop, "')">>]

\* the error a handler has in hand after `await`-ing a reply, if any
Thrown(v, reply, prop) ==
  IF graphql(v, reply).threw THEN graphql(v, reply)
  ELSE IF ~reply.data THEN TypeErrorReading(prop)
  ELSE [threw |-> FALSE, name |-> "", message |-> <<>>]

(* --------------------------- request arrival --------------------------- *)
\* requests are numbered in the order in which they arrive
InFlight == {s \in Slots : req[s].pc \notin {"idle", "done"}}

CanArrive(r) ==
  /\ req[r].pc = "idle"
  /\ r > 1 => req[r - 1].pc # "idle"
  /\ Cardinality(InFlight) < MaxInFlight

Arrived(kind, customer_id, pet_data, petId) ==
  [IdleRequest EXCEPT !.kind = kind, !.customer_id = customer_id,
                      !.pet_data = pet_data, !.petId = petId,
                      !.doneBefore = {s \in Slots : req[s].pc = "done"}]

(* ------------------ POST /apps/pet-profile/create ---------------------- *)
\* CreateCatch answering with a fixed message
CreateCatch_generic(v, err) ==
  [NoResponse EXCEPT !.status = 500, !.success = "false",
                     !.error = <<"Internal server error">>]

\* the body of the `catch` of the create handler
CreateCatch(v, err) ==
  [NoResponse EXCEPT !.status = 500, !.success = "false", !.error = err.message,
                     !.details = IF v = "part_003"
                                   THEN <<err.name, ": ">> \o err.message
                                   ELSE <<>>]

\* the checks on req.body at the top of the handler: the response they send,
\* or NoResponse when the request passes
CreateValidate(v, customer_id, pet_data) ==
  IF v = "part_003" /\ (customer_id = Undefined \/ customer_id = "")
    THEN [NoResponse EXCEPT !.status = 400, !.success = "false",
                            !.error = <<"customer_id is required">>]
  ELSE IF v = "part_003" /\ pet_data = None
    THEN [NoResponse EXCEPT !.status = 400, !.success = "false",
                            !.error = <<"pet_data is required">>]
  ELSE NoResponse

\* CreateFields without the `|| ''` on birthday and breed
CreateFields_uncoerced(v, pd) ==
  [name |-> pd.name, type |-> pd.type,
   birthday |-> pd.birthday, breed |-> pd.breed,
   weight |-> pd.weight,
   allergies |-> JSONstringify(IF pd.allergies = None THEN <<>> ELSE pd.allergies[1]),
   health_boost |-> OrEmpty(IF v = "part_003" THEN pd.health_boost ELSE pd.healthBoost)]

\* variables.metaobject.fields of the create mutation
CreateFields(v, pd) ==
  [name |-> pd.name, type |-> pd.type,
   birthday |-> OrEmpty(pd.birthday), breed |-> OrEmpty(pd.breed),
   weight |-> pd.weight,
   allergies |-> JSONstringify(IF pd.allergies = None THEN <<>> ELSE pd.allergies[1]),
   health_boost |-> OrEmpty(IF v = "part_003" THEN pd.health_boost ELSE pd.healthBoost)]

\* CreateEnter with the `return` of the two checks left out
CreateEnter_noReturn(v, rq) ==
  LET checked == IF CreateValidate(v, rq.customer_id, rq.pet_data) # NoResponse
                   THEN [rq EXCEPT !.sent =
                           Append(@, CreateValidate(v, rq.customer_id, rq.pet_data))]
                   ELSE rq
  IN IF rq.pet_data = None
       THEN Respond(checked, CreateCatch(v, TypeErrorReading("name")))
       ELSE Call(checked, "metaobjectCreate", CreateFields(v, rq.pet_data[1]),
                 "awaitCreate")

\* the handler from its first line to its first await
CreateEnter(v, rq) ==
  IF CreateValidate(v, rq.customer_id, rq.pet_data) # NoResponse
    THEN Respond(rq, CreateValidate(v, rq.customer_id, rq.pet_data))
  ELSE IF rq.pet_data = None
    \* `pet_data.name` on undefined throws inside the try block
    THEN Respond(rq, CreateCatch(v, TypeErrorReading("name")))
  ELSE Call(rq, "metaobjectCreate", CreateFields(v, rq.pet_data[1]), "awaitCreate")

StartCreate(r) ==
  /\ CanArrive(r)
  /\ \E c \in CustomerIdInputs, pd \in PetDataInputs :
       req' = [req EXCEPT ![r] = CreateEnter(variant, Arrived("create", c, pd, 0))]
  /\ UNCHANGED <<variant, metaobjects, customerPets, nextId, upsets>>
  /\ UNCHANGED browser

\* CreateUserErrors taking the last of the userErrors
CreateUserErrors_last(v, ue) ==
  [NoResponse EXCEPT !.status = 400, !.success = "false",
                     !.error = ue[Len(ue)].message,
                     !.userErrors = IF v = "part_003" THEN ue ELSE <<>>]

\* the 400 response for a rejected metaobjectCreate
CreateUserErrors(v, ue) ==
  [NoResponse EXCEPT !.status = 400, !.success = "false",
                     !.error = ue[1].message,
                     !.userErrors = IF v = "part_003" THEN ue ELSE <<>>]

\* CreateAfterMutation sending the mutation again when the call threw
CreateAfterMutation_retry(v, rq, reply, ue, newId) ==
  IF Thrown(v, reply, "metaobjectCreate").threw
    THEN Call(rq, "metaobjectCreate", rq.calls[1].arg, "awaitCreate")
  ELSE IF Len(ue) > 0
    THEN Respond(rq, CreateUserErrors(v, ue))
  ELSE Call([rq EXCEPT !.metaobjectId = newId],
            "customerMetafield", rq.customer_id, "awaitLinkQuery")

\* the handler from the reply of metaobjectCreate to the await in linkPetToCustomer
CreateAfterMutation(v, rq, reply, ue, newId) ==
  IF Thrown(v, reply, "metaobjectCreate").threw
    THEN Respond(rq, CreateCatch(v, Thrown(v, reply, "metaobjectCreate")))
  ELSE IF Len(ue) > 0
    THEN Respond(rq, CreateUserErrors(v, ue))
  ELSE Call([rq EXCEPT !.metaobjectId = newId],
            "customerMetafield", rq.customer_id, "awaitLinkQuery")

CreateReturn(r) ==
  /\ req[r].pc = "awaitCreate"
  /\ \E reply \in Replies, ue \in UserErrorLists :
       /\ Upstream(reply, ue)
       /\ LET accepted == reply = OkReply /\ ue = <<>>
              fields == req[r].calls[Len(req[r].calls)].arg
          IN /\ metaobjects' = IF accepted
                                 THEN [metaobjects EXCEPT ![nextId] = Some(fields)]
                                 ELSE metaobjects
             /\ nextId' = IF accepted THEN nextId + 1 ELSE nextId
             /\ req' = [req EXCEPT ![r] =
                          CreateAfterMutation(variant, Replied(req[r], reply, ue),
                                              reply, ue, nextId)]
  /\ UNCHANGED <<variant, customerPets>>
  /\ UNCHANGED browser

(* ------------------------- linkPetToCustomer --------------------------- *)
\* LinkedPetIds pushing the new id twice
LinkedPetIds_twice(existingMetafield, petMetaobjectId) ==
  Append(Append(IF existingMetafield # None THEN JSONparse(existingMetafield[1])
                ELSE <<>>,
                petMetaobjectId),
         petMetaobjectId)

\* the list linkPetToCustomer writes back: the value it read, plus the new id
LinkedPetIds(existingMetafield, petMetaobjectId) ==
  Append(IF existingMetafield # None THEN JSONparse(existingMetafield[1]) ELSE <<>>,
         petMetaobjectId)

\* from the reply of the customer query to the await of customerUpdate
LinkAfterQuery(v, rq, reply, existingMetafield) ==
  IF Thrown(v, reply, "customer").threw
    THEN Respond(rq, CreateCatch(v, Thrown(v, reply, "customer")))
  ELSE Call([rq EXCEPT !.petIds = LinkedPetIds(existingMetafield, rq.metaobjectId)],
            "customerUpdate",
            [customer |-> rq.customer_id,
             value |-> JSONstringify(LinkedPetIds(existingMetafield, rq.metaobjectId))],
            "awaitLinkUpdate")

\* data.customer.metafield(namespace: "custom", key: "pets") of the upstream
UpstreamPetsMetafield(c) ==
  IF c \in ExistingCustomers THEN customerPets[c] ELSE None

LinkQueryReturn(r) ==
  /\ req[r].pc = "awaitLinkQuery"
  /\ \E reply \in Replies :
       /\ Upstream(reply, <<>>)
       /\ req' = [req EXCEPT ![r] =
                    LinkAfterQuery(variant, Replied(req[r], reply, <<>>), reply,
                                   UpstreamPetsMetafield(req[r].customer_id))]
  /\ UNCHANGED <<variant, metaobjects, customerPets, nextId>>
  /\ UNCHANGED browser

CustomerInvalid == [field |-> "id", message |-> <<"Customer is invalid">>]
CustomerUserErrorLists == {<<>>, <<CustomerInvalid>>}

\* from the reply of customerUpdate to the end of the create handler;
\* updateResponse is not looked at
LinkAfterUpdate(v, rq, reply, ue) ==
  IF graphql(v, reply).threw
    THEN Respond(rq, CreateCatch(v, graphql(v, reply)))
  ELSE Respond(rq, [NoResponse EXCEPT !.status = 200, !.success = "true",
                                      !.metaobject_id = rq.metaobjectId,
                                      !.pet_data = rq.pet_data])

\* customerUpdate with the new identifier appended upstream to the current value
IndexAfterUpdate_append(current, input) ==
  Some(JSONstringify(Append(IF current # None THEN JSONparse(current[1]) ELSE <<>>,
                            JSONparse(input.value)[Len(JSONparse(input.value))])))

\* the metafield custom.pets after an accepted customerUpdate: the mutation
\* carries the whole list, which replaces the metafield's value
IndexAfterUpdate(current, input) == Some(input.value)

LinkUpdateReturn(r) ==
  /\ req[r].pc = "awaitLinkUpdate"
  /\ \E reply \in Replies, free \in CustomerUserErrorLists :
       \* the upstream accepts no update of a customer it does not have
       LET known == req[r].customer_id \in ExistingCustomers
           ue == IF reply = OkReply /\ ~known THEN <<CustomerInvalid>> ELSE free
           input == req[r].calls[Len(req[r].calls)].arg
       IN /\ Upstream(reply, IF known THEN free ELSE <<>>)
          /\ ~known => free = <<>>
          /\ customerPets' = IF reply = OkReply /\ ue = <<>>
                               THEN [customerPets EXCEPT ![input.customer] =
                                       IndexAfterUpdate(@, input)]
                               ELSE customerPets
          /\ req' = [req EXCEPT ![r] =
                       LinkAfterUpdate(variant, Replied(req[r], reply, ue), reply, ue)]
  /\ UNCHANGED <<variant, metaobjects, nextId>>
  /\ UNCHANGED browser


(* --------------- DELETE /apps/pet-profile/delete/:petId ---------------- *)
\* the body of the `catch` of the delete handler and of the list handler
PlainCatch(err) ==
  [NoResponse EXCEPT !.status = 500, !.success = "false", !.error = err.message]

StartDelete(r) ==
  /\ CanArrive(r)
  /\ \E id \in Ids :
       req' = [req EXCEPT ![r] =
                 Call(Arrived("delete", Undefined, None, id),
                      "metaobjectDelete", id, "awaitDelete")]
  /\ UNCHANGED <<variant, metaobjects, customerPets, nextId, upsets>>
  /\ UNCHANGED browser

\* DeleteAfterMutation whose catch answers success
DeleteAfterMutation_swallow(v, rq, reply, ue, deletedId) ==
  IF Len(ue) > 0
    THEN Respond(rq, [NoResponse EXCEPT !.status = 400, !.success = "false",
                                        !.error = ue[1].message])
  ELSE Respond(rq, [NoResponse EXCEPT !.status = 200, !.success = "true",
                                      !.deleted_id = deletedId])

\* the handler from the reply of metaobjectDelete to its end
DeleteAfterMutation(v, rq, reply, ue, deletedId) ==
  IF Thrown(v, reply, "metaobjectDelete").threw
    THEN Respond(rq, PlainCatch(Thrown(v, reply, "metaobjectDelete")))
  ELSE IF Len(ue) > 0
    THEN Respond(rq, [NoResponse EXCEPT !.status = 400, !.success = "false",
                                        !.error = ue[1].message])
  ELSE Respond(rq, [NoResponse EXCEPT !.status = 200, !.success = "true",
                                      !.deleted_id = deletedId])

NotFound == [field |-> "id", message |-> <<"Record not found">>]

\* what the metaobjectDelete mutation does to the upstream store
UpstreamDelete(store, id) == [store EXCEPT ![id] = None]

\* DeleteReturn that also takes the identifier out of every customer's index
DeleteReturn_unlink(r) ==
  /\ req[r].pc = "awaitDelete"
  /\ \E reply \in Replies :
       LET id == req[r].petId
           ue == IF reply = OkReply /\ metaobjects[id] = None THEN <<NotFound>> ELSE <<>>
           without(s) == FilterSeq(s, [i \in DOMAIN s |-> s[i] # id])
       IN /\ Upstream(reply, <<>>)
          /\ metaobjects' = IF reply = OkReply /\ ue = <<>>
                              THEN UpstreamDelete(metaobjects, id)
                              ELSE metaobjects
          /\ customerPets' = IF reply = OkReply /\ ue = <<>>
                               THEN [c \in ExistingCustomers |->
                                       IF customerPets[c] = None THEN None
                                       ELSE Some(JSONstringify(
                                              without(JSONparse(customerPets[c][1]))))]
                               ELSE customerPets
          /\ req' = [req EXCEPT ![r] =
                       DeleteAfterMutation(variant, Replied(req[r], reply, ue),
                                           reply, ue, id)]
  /\ UNCHANGED <<variant, nextId>>
  /\ UNCHANGED browser

DeleteReturn(r) ==
  /\ req[r].pc = "awaitDelete"
  /\ \E reply \in Replies :
       LET id == req[r].petId
           ue == IF reply = OkReply /\ metaobjects[id] = None THEN <<NotFound>> ELSE <<>>
       IN /\ Upstream(reply, <<>>)
          /\ metaobjects' = IF reply = OkReply /\ ue = <<>>
                              THEN UpstreamDelete(metaobjects, id)
                              ELSE metaobjects
          /\ req' = [req EXCEPT ![r] =
                       DeleteAfterMutation(variant, Replied(req[r], reply, ue),
                                           reply, ue, id)]
  /\ UNCHANGED <<variant, customerPets, nextId>>
  /\ UNCHANGED browser

(* -------------------- GET /apps/pet-profile/list ----------------------- *)
Pending == [state |-> "pending", pet |-> None, error |-> <<>>]
Fulfilled(pet) == [state |-> "fulfilled", pet |-> pet, error |-> <<>>]
Rejected(err) == [state |-> "rejected", pet |-> None, error |-> err.message]

\* fetchPetMetaobject whose catch throws the error again
fetchPetMetaobject_rethrow(v, petId, reply, object) ==
  IF Thrown(v, reply, "metaobject").threw
    THEN Rejected(Thrown(v, reply, "metaobject"))
  ELSE IF object = None THEN Fulfilled(None)
  ELSE Fulfilled(Some(
         [id |-> petId, handle |-> petId,
          name |-> object[1].name, type |-> object[1].type,
          birthday |-> object[1].birthday, breed |-> object[1].breed,
          weight |-> object[1].weight,
          allergies |-> JSONparse(object[1].allergies),
          healthBoost |-> IF v = "part_003" THEN None
                          ELSE Some(object[1].health_boost)]))

\* fetchPetMetaobject: the promise's outcome, given the upstream's reply and
\* the object the upstream has under petId (None: no such object)
fetchPetMetaobject(v, petId, reply, object) ==
  IF Thrown(v, reply, "metaobject").threw THEN Fulfilled(None)
  ELSE IF object = None THEN Fulfilled(None)
  ELSE Fulfilled(Some(
         [id |-> petId, handle |-> petId,
          name |-> object[1].name, type |-> object[1].type,
          birthday |-> object[1].birthday, breed |-> object[1].breed,
          weight |-> object[1].weight,
          allergies |-> JSONparse(object[1].allergies),
          healthBoost |-> IF v = "part_003" THEN None
                          ELSE Some(object[1].health_boost)]))

RECURSIVE CallEach(_, _, _)
\* petIds.map(petId => fetchPetMetaobject(petId)): every fetch goes out at once
CallEach(rq, petIds, pc) ==
  IF petIds = <<>> THEN rq
  ELSE CallEach(Call(rq, "metaobject", Head(petIds), pc), Tail(petIds), pc)

StartList(r) ==
  /\ CanArrive(r)
  /\ \E c \in CustomerIdInputs :
       req' = [req EXCEPT ![r] =
                 Call(Arrived("list", c, None, 0),
                      "customerMetafields", c, "awaitIndex")]
  /\ UNCHANGED <<variant, metaobjects, customerPets, nextId, upsets>>
  /\ UNCHANGED browser

\* the handler from the reply of the customer query to Promise.all
ListAfterIndex(v, rq, reply, petsField) ==
  IF Thrown(v, reply, "customer").threw
    THEN Respond(rq, PlainCatch(Thrown(v, reply, "customer")))
  ELSE IF petsField = None
    THEN Respond(rq, [NoResponse EXCEPT !.status = 200, !.pets = Some(<<>>)])
  ELSE IF Len(JSONparse(petsField[1])) = 0
    THEN Respond(rq, [NoResponse EXCEPT !.status = 200, !.pets = Some(<<>>)])
  ELSE CallEach([rq EXCEPT !.petIds = JSONparse(petsField[1]),
                           !.results = [i \in DOMAIN JSONparse(petsField[1]) |-> Pending]],
                JSONparse(petsField[1]), "awaitFetches")

ListIndexReturn(r) ==
  /\ req[r].pc = "awaitIndex"
  /\ \E reply \in Replies :
       /\ Upstream(reply, <<>>)
       /\ req' = [req EXCEPT ![r] =
                    ListAfterIndex(variant, Replied(req[r], reply, <<>>), reply,
                                   UpstreamPetsMetafield(req[r].customer_id))]
  /\ UNCHANGED <<variant, metaobjects, customerPets, nextId>>
  /\ UNCHANGED browser

\* ValidPets collecting the pets last to first
ValidPets_reversed(results) ==
  LET pets == [i \in DOMAIN results |-> results[Len(results) + 1 - i].pet]
      kept == FilterSeq(pets, [i \in DOMAIN pets |-> pets[i] # None])
  IN [i \in DOMAIN kept |-> kept[i][1]]

\* pets.filter(pet => pet !== null)
ValidPets(results) ==
  LET pets == [i \in DOMAIN results |-> results[i].pet]
      kept == FilterSeq(pets, [i \in DOMAIN pets |-> pets[i] # None])
  IN [i \in DOMAIN kept |-> kept[i][1]]

\* the handler once a fetch has settled: Promise.all rejects with the first
\* rejection, and resolves when every fetch is fulfilled
ListAfterFetch(rq) ==
  IF \E i \in DOMAIN rq.results : rq.results[i].state = "rejected"
    THEN LET i == CHOOSE j \in DOMAIN rq.results : rq.results[j].state = "rejected"
         IN Respond(rq, [NoResponse EXCEPT !.status = 500, !.success = "false",
                                           !.error = rq.results[i].error])
  ELSE IF \E i \in DOMAIN rq.results : rq.results[i].state = "pending"
    THEN rq
  ELSE Respond(rq, [NoResponse EXCEPT !.status = 200,
                                      !.pets = Some(ValidPets(rq.results))])

FetchReturn(r) ==
  /\ req[r].pc = "awaitFetches"
  /\ \E i \in DOMAIN req[r].results, reply \in Replies :
       /\ req[r].results[i].state = "pending"
       /\ Upstream(reply, <<>>)
       /\ LET petId == req[r].petIds[i]
              found == reply = OkReply /\ metaobjects[petId] # None
              rq == [Replied(req[r], reply, <<>>) EXCEPT
                       !.results[i] = fetchPetMetaobject(variant, petId, reply,
                                                         metaobjects[petId]),
                       !.resolved = IF found THEN @ \cup {i} ELSE @,
                       !.fetched = Append(@, [pos |-> i,
                                              object |-> IF found THEN metaobjects[petId]
                                                         ELSE None])]
          IN req' = [req EXCEPT ![r] = ListAfterFetch(rq)]
  /\ UNCHANGED <<variant, metaobjects, customerPets, nextId>>
  /\ UNCHANGED browser

(* --------------------------- specification ----------------------------- *)
Next ==
  \E r \in Slots :
    \/ StartCreate(r)
    \/ CreateReturn(r)
    \/ LinkQueryReturn(r)
    \/ LinkUpdateReturn(r)
    \/ StartDelete(r)
    \/ DeleteReturn(r)
    \/ StartList(r)
    \/ ListIndexReturn(r)
    \/ FetchReturn(r)

Spec == Init /\ [][Next]_vars

\* every upstream call eventually returns or fails
UpstreamReplies(r) ==
  \/ CreateReturn(r)
  \/ LinkQueryReturn(r)
  \/ LinkUpdateReturn(r)
  \/ DeleteReturn(r)
  \/ ListIndexReturn(r)
  \/ FetchReturn(r)

FairSpec == Spec /\ \A r \in Slots : WF_vars(UpstreamReplies(r))

(* ====================== the theme's components ========================= *)
(* The storefront pages carry one form or stepper component and, possibly, *)
(* the <pet-profile-completion> component.  One action is one event of a   *)
(* page (its load, a click, a timer, the settling of a fetch) together     *)
(* with the handler code that runs until the next await.  The reply to a   *)
(* create request is whatever the proxy or the network gives.              *)
(***************************************************************************)
Versions == {"pet_profile_form", "pet_signup_stepper", "pet_selector", "part_000"}
\* the steppers that send the visitor to the login page and resume afterwards
AuthVersions == {"pet_selector", "part_000"}

\* what the theme renders into a page: the components and their attributes
PageConfigs ==
  {c \in [version : Versions \cup {"none"}, completion : BOOLEAN,
          loggedIn : BOOLEAN, customerId : {"", "c1"}, pet_signup : BOOLEAN] :
     /\ c.version = "none" => c.completion
     /\ c.pet_signup => c.version \in AuthVersions
     /\ ~c.loggedIn => c.customerId = ""}

MustLogIn == "You must be logged in to create a pet profile."
CustomerIdMissing == "Customer ID is missing. Please refresh the page and try again."
AuthenticationFailed == "Authentication failed. Please sign in and try again."
AccountNotRetrieved ==
  "We couldn't retrieve your account information. Please refresh and try again."
FormDataNotFound == "Your form data was not found. Please fill out the form again."
PetDataNotDefined == "petData is not defined"

\* the pet the visitor enters
FormPet == [name |-> "Buddy", type |-> "dog"]

\* how a fetch of /apps/pet-profile/create settles; status 0: the fetch rejects
OkResponse ==
  [ok |-> TRUE, status |-> 200, metaobject_id |-> "gid", error |-> ""]
ErrorResponse ==
  [ok |-> FALSE, status |-> 500, metaobject_id |-> "",
   error |-> "Failed to create pet profile"]
NetworkFailure ==
  [ok |-> FALSE, status |-> 0, metaobject_id |-> "", error |-> "Failed to fetch"]
FetchReplies == {OkResponse, ErrorResponse, NetworkFailure}

\* where the pet of a create request comes from; gen tells the saved forms apart
TypedSource == [key |-> "form", gen |-> 0]
PendingProfileSource == [key |-> "pending_pet_profile", gen |-> 0]
StepperSource(data) == [key |-> "pet_signup_pending_data", gen |-> data.gen]

OneHour == 1

\* JSON text of an object, and back
JSONstringifyObject(o) == [json |-> o]
JSONparseObject(s) == s.json

\* a pending profile as the simple form leaves it, with and without its pet
PendingProfiles ==
  {JSONstringifyObject([pet_data |-> Some(FormPet), processing |-> FALSE]),
   JSONstringifyObject([pet_data |-> None, processing |-> FALSE])}

\* the signup data a stepper saved on an earlier visit
SavedEarlier ==
  JSONstringifyObject(
    [petType |-> FormPet.type, petName |-> FormPet.name,
     formData |-> Some(FormPet), timestamp |-> 0,
     processing |-> FALSE, gen |-> 0])

\* the part of the browser a handler of tab t works on
Page(t) == [ls |-> localStorage, reqs |-> createRequests, tab |-> tabs[t]]

Commit(t, b) ==
  /\ localStorage' = b.ls
  /\ createRequests' = b.reqs
  /\ tabs' = [tabs EXCEPT ![t] = b.tab]

InProgress(reqs, source) ==
  \E i \in DOMAIN reqs : reqs[i].source = source /\ reqs[i].outcome = "pending"

\* fetch(".../apps/pet-profile/create", {method: 'POST', ...})
fetchCreate(b, t, by, source) ==
  [b EXCEPT !.reqs = Append(@,
     [tab |-> t, by |-> by, source |-> source, customer_id |-> b.tab.customerId,
      during |-> source.key # "form" /\ InProgress(b.reqs, source),
      outcome |-> "pending"])]

Settled(reply) == IF reply.ok THEN "ok" ELSE "failed"

savePetToLocalStorage(b, petData, metaobjectId, customerId) ==
  LET item == b.ls.customer_pets
      pets == JSONparse(IF item = None THEN JSONstringify(<<>>) ELSE item[1])
      newPet == [name |-> petData.name, id |-> metaobjectId,
                 customer_id |-> customerId]
  IN  [b EXCEPT !.ls.customer_pets = Some(JSONstringify(Append(pets, newPet)))]

clearFormDataFromSession(b) == [b EXCEPT !.ls.pet_signup_pending_data = None]

\* the checks of submitPetData before its fetch: the message it throws, if any
LoginCheck_skipped(tab) ==
  IF tab.version \in AuthVersions /\ tab.customerId \in {"", "null", "undefined"}
    THEN Some(CustomerIdMissing)
    ELSE None

LoginCheck(tab) ==
  IF ~tab.loggedIn THEN Some(MustLogIn)
  ELSE IF tab.version \in AuthVersions
          /\ tab.customerId \in {"", "null", "undefined"}
    THEN Some(CustomerIdMissing)
    ELSE None

\* what follows `await this.handleSubmit()` in handleAuthenticationReturn and
\* in the retry button's listener; a click on the submit button awaits nothing
AfterSubmit(b, caller) ==
  IF caller = "click" THEN b
  ELSE [clearFormDataFromSession(b) EXCEPT !.tab.pet_signup = FALSE]

\* handleSubmit up to the fetch of submitPetData, or to its end when
\* submitPetData throws before fetching
handleSubmit(b, t, caller) ==
  LET hidden == [b EXCEPT !.tab.calls = @ + 1, !.tab.caller = caller,
                          !.tab.error = None, !.tab.success = FALSE]
      thrown == LoginCheck(b.tab)
      source == IF b.tab.form = None THEN TypedSource ELSE b.tab.form[1]
  IN  IF thrown # None
        THEN AfterSubmit([hidden EXCEPT !.tab.error = thrown,
                                        !.tab.result = "rejected"], caller)
        ELSE [fetchCreate(hidden, t, b.tab.version, source)
                EXCEPT !.tab.submit = Len(b.reqs) + 1]

\* submitPetData from the settling of its fetch, and the rest of handleSubmit
AfterFetch(b, reply) ==
  LET tab == b.tab
  IN  IF reply.ok
        THEN LET cached ==
                   \* the multipart stepper caches result.pet, which the
                   \* proxy's reply does not have
                   IF tab.version = "pet_selector" THEN b
                   ELSE savePetToLocalStorage(b, FormPet, reply.metaobject_id,
                                              tab.customerId)
             IN  [cached EXCEPT !.tab.result = "result", !.tab.success = TRUE]
        ELSE IF tab.version = "pet_selector"
               \* the fallback names petData, which this version does not have
               THEN [b EXCEPT !.tab.result = "rejected",
                              !.tab.error = Some(PetDataNotDefined)]
               ELSE [savePetToLocalStorage(b, FormPet, "temp", tab.customerId)
                       EXCEPT !.tab.result = "local_only", !.tab.success = TRUE]

checkForPendingPetProfile(b, t) ==
  LET item == b.ls.pending_pet_profile
      pendingData == JSONparseObject(item[1])
  IN  IF item = None THEN b
      ELSE IF pendingData.processing THEN b
      ELSE IF pendingData.pet_data = None
        THEN [b EXCEPT !.ls.pending_pet_profile = None]
        ELSE [fetchCreate(b, t, "completion", PendingProfileSource)
                EXCEPT !.ls.pending_pet_profile =
                         Some(JSONstringifyObject(
                                [pendingData EXCEPT !.processing = TRUE])),
                       !.tab.notification = Some("info"),
                       !.tab.profile = Len(b.reqs) + 1]

TooOld_never(data) == FALSE

TooOld(data) == clock - data.timestamp > OneHour

checkForPendingStepperData(b, t) ==
  LET item == b.ls.pet_signup_pending_data
      pendingData == JSONparseObject(item[1])
  IN  IF item = None THEN b
      ELSE IF pendingData.processing THEN b
      ELSE IF pendingData.formData = None \/ pendingData.petType = ""
        THEN [b EXCEPT !.ls.pet_signup_pending_data = None]
      ELSE IF TooOld(pendingData)
        THEN [b EXCEPT !.ls.pet_signup_pending_data = None]
        ELSE [fetchCreate(b, t, "completion", StepperSource(pendingData))
                EXCEPT !.ls.pet_signup_pending_data =
                         Some(JSONstringifyObject(
                                [pendingData EXCEPT !.processing = TRUE])),
                       !.tab.notification = Some("info"),
                       !.tab.stepperData = Len(b.reqs) + 1]

\* the components of a page are connected
connectedCallback(b, t) ==
  LET completed ==
        IF b.tab.completion /\ b.tab.loggedIn /\ b.tab.customerId # ""
          THEN checkForPendingStepperData(checkForPendingPetProfile(b, t), t)
          ELSE b
  IN  IF b.tab.version \in AuthVersions /\ b.tab.pet_signup
        THEN [completed EXCEPT !.tab.authReturn = "delay"]
        ELSE completed

\* the page a tab shows goes away: nothing awaits its fetches any more
Unloaded(t) ==
  LET left == {tabs[t].submit, tabs[t].profile, tabs[t].stepperData} \ {0}
  IN  [i \in DOMAIN createRequests |->
         IF i \in left THEN [createRequests[i] EXCEPT !.outcome = "abandoned"]
                       ELSE createRequests[i]]

\* the visitor opens a page of the shop in tab t
PageLoad(t) ==
  /\ user.loads < MaxLoads
  /\ t > 1 => tabs[t - 1].load > 0   \* the tabs are numbered as they are opened
  /\ \E c \in PageConfigs :
       Commit(t, connectedCallback(
         [ls |-> localStorage, reqs |-> Unloaded(t),
          tab |-> [ClosedTab EXCEPT !.load = user.loads + 1,
                                    !.version = c.version,
                                    !.completion = c.completion,
                                    !.loggedIn = c.loggedIn,
                                    !.customerId = c.customerId,
                                    !.pet_signup = c.pet_signup]], t))
  /\ user' = [user EXCEPT !.loads = @ + 1]
  /\ UNCHANGED <<clock, server>>
  /\ UNCHANGED <<petList, stepper>>

\* the visitor submits the form
Submit(t) ==
  /\ tabs[t].version \in Versions
  /\ tabs[t].submit = 0             \* the button is disabled while submitting
  /\ tabs[t].authReturn # "delay"   \* nobody clicks within the first 200 ms
  /\ user.clicks < MaxClicks
  /\ Commit(t, handleSubmit(Page(t), t, "click"))
  /\ user' = [user EXCEPT !.clicks = @ + 1]
  /\ UNCHANGED <<clock, server>>
  /\ UNCHANGED <<petList, stepper>>

\* the fetch of submitPetData settles
SubmitSettled(t) ==
  /\ tabs[t].submit > 0
  /\ \E reply \in FetchReplies :
       LET b == [Page(t) EXCEPT !.reqs[tabs[t].submit].outcome = Settled(reply)]
           after == AfterSubmit(AfterFetch(b, reply), tabs[t].caller)
       IN  Commit(t, [after EXCEPT !.tab.submit = 0])
  /\ UNCHANGED <<clock, user, server>>
  /\ UNCHANGED <<petList, stepper>>

loadFormDataFromSession(b) ==
  LET item == b.ls.pet_signup_pending_data
      data == JSONparseObject(item[1])
  IN  IF item = None THEN [b |-> b, data |-> None]
      ELSE IF TooOld(data)
        THEN [b |-> clearFormDataFromSession(b), data |-> None]
        ELSE [b |-> b, data |-> Some(data)]

\* handleAuthenticationReturn after its delay of 200 ms
DelayElapsed(t) ==
  /\ tabs[t].authReturn = "delay"
  /\ LET b == [Page(t) EXCEPT !.tab.authReturn = "done"]
         loaded == loadFormDataFromSession(b)
     IN  Commit(t,
           IF ~b.tab.loggedIn
             THEN [b EXCEPT !.tab.error = Some(AuthenticationFailed),
                            !.tab.retryButton = TRUE]
           ELSE IF b.tab.customerId \in {"", "null"}
             THEN [b EXCEPT !.tab.error = Some(AccountNotRetrieved),
                            !.tab.retryButton = TRUE]
           ELSE IF loaded.data = None
             THEN [loaded.b EXCEPT !.tab.error = Some(FormDataNotFound)]
             ELSE handleSubmit(
                    [loaded.b EXCEPT !.tab.form =
                                       Some(StepperSource(loaded.data[1]))],
                    t, "auto"))
  /\ UNCHANGED <<clock, user, server>>
  /\ UNCHANGED <<petList, stepper>>

\* the visitor clicks the retry button
Retry(t) ==
  /\ tabs[t].retryButton
  /\ user.clicks < MaxClicks
  /\ Commit(t, handleSubmit(Page(t), t, "retry"))
  /\ user' = [user EXCEPT !.clicks = @ + 1]
  /\ UNCHANGED <<clock, server>>
  /\ UNCHANGED <<petList, stepper>>

\* the visitor, not logged in, leaves the stepper for the login or the
\* registration page: the form is saved first
saveFormDataToSession(t) ==
  /\ tabs[t].version \in AuthVersions
  /\ ~tabs[t].loggedIn
  /\ user.saves < MaxSaves
  /\ localStorage' =
       [localStorage EXCEPT !.pet_signup_pending_data =
          Some(JSONstringifyObject(
                 [petType |-> FormPet.type, petName |-> FormPet.name,
                  formData |-> Some(FormPet), timestamp |-> clock,
                  processing |-> FALSE, gen |-> user.saves + 1]))]
  /\ createRequests' = Unloaded(t)
  /\ tabs' = [tabs EXCEPT ![t] = ClosedTab]
  /\ user' = [user EXCEPT !.saves = @ + 1]
  /\ UNCHANGED <<clock, server>>
  /\ UNCHANGED <<petList, stepper>>

\* the fetch of checkForPendingPetProfile settles
ProfileSettled(t) ==
  /\ tabs[t].profile > 0
  /\ \E reply \in FetchReplies :
       LET b == [Page(t) EXCEPT !.reqs[tabs[t].profile].outcome = Settled(reply),
                                !.tab.profile = 0]
       IN  Commit(t,
             IF reply.ok
               THEN [b EXCEPT !.ls.pending_pet_profile = None,
                              !.tab.notification = Some("success")]
               ELSE [b EXCEPT !.tab.notification = Some("error")])
  /\ UNCHANGED <<clock, user, server>>
  /\ UNCHANGED <<petList, stepper>>

\* the fetch of checkForPendingStepperData settles
StepperDataSettled(t) ==
  /\ tabs[t].stepperData > 0
  /\ \E reply \in FetchReplies :
       LET b == [Page(t) EXCEPT !.reqs[tabs[t].stepperData].outcome =
                                  Settled(reply),
                                !.tab.stepperData = 0]
       IN  Commit(t,
             IF reply.ok
               THEN [b EXCEPT !.ls.pet_signup_pending_data = None,
                              !.tab.notification = Some("success")]
               ELSE [b EXCEPT !.tab.notification = Some("error")])
  /\ UNCHANGED <<clock, user, server>>
  /\ UNCHANGED <<petList, stepper>>

\* two hours pass
HoursPass ==
  /\ clock + 2 <= MaxClock
  /\ clock' = clock + 2
  /\ UNCHANGED <<localStorage, tabs, createRequests, user, server>>
  /\ UNCHANGED <<petList, stepper>>

\* no request reaches the proxy while the browser is looked at
ServerAtRest ==
  /\ variant = "part_003"
  /\ metaobjects = [i \in Ids |-> None]
  /\ customerPets = [c \in ExistingCustomers |-> None]
  /\ nextId = 1
  /\ upsets = 0
  /\ req = [r \in Slots |-> IdleRequest]

FrontInit ==
  /\ ServerAtRest
  /\ localStorage \in
       {[EmptyStorage EXCEPT !.pending_pet_profile = p,
                             !.pet_signup_pending_data = d] :
          p \in {None} \cup {Some(q) : q \in PendingProfiles},
          d \in {None, Some(SavedEarlier)}}
  /\ tabs = [t \in Tabs |-> ClosedTab]
  /\ createRequests = <<>>
  /\ clock = 0
  /\ user = [loads |-> 0, clicks |-> 0, saves |-> 0]
  /\ petList = NoPetList
  /\ stepper = NoStepper

FrontNext ==
  \/ \E t \in Tabs :
       \/ PageLoad(t)
       \/ Submit(t)
       \/ SubmitSettled(t)
       \/ DelayElapsed(t)
       \/ Retry(t)
       \/ saveFormDataToSession(t)
       \/ ProfileSettled(t)
       \/ StepperDataSettled(t)
  \/ HoursPass

FrontSpec == FrontInit /\ [][FrontNext]_vars

(* ===================== the pet list and its cache ====================== *)
(* The page of the customer's pets: the PetList component (part_002) or    *)
(* the PetSelector component (part_001), the 'customer_pets' cache and the *)
(* proxy behind them.  The proxy answers a list or a delete request in one *)
(* step here, or the request fails.                                        *)
(***************************************************************************)
ListComponents == {"pet_list", "pet_selector"}

\* the identifier of a metaobject as the browser has it, a string
Gid(i) == ToString(i)

\* a pet as it is displayed and cached
Entry(pet, customerId) ==
  [name |-> pet.name, id |-> Gid(pet.id), customer_id |-> customerId]

\* data.pets of GET /apps/pet-profile/list?customer_id=c when nothing fails
APIPets(c) ==
  LET petIds == IF customerPets[c] = None THEN <<>>
                ELSE JSONparse(customerPets[c][1])
      pets == ValidPets([k \in DOMAIN petIds |->
                fetchPetMetaobject(variant, petIds[k], OkReply,
                                   metaobjects[petIds[k]])])
  IN  [k \in DOMAIN pets |-> Entry(pets[k], Undefined)]

\* JSON.parse(localStorage.getItem('customer_pets') || '[]')
AllPets(ls) ==
  JSONparse(IF ls.customer_pets = None THEN JSONstringify(<<>>)
                                       ELSE ls.customer_pets[1])

\* a pet the fallback of submitPetData saved for customer c1, and a pet
\* another customer of this browser has cached
TempPet == [name |-> FormPet.name, id |-> "temp", customer_id |-> "c1"]
OtherPet == [name |-> FormPet.name, id |-> OkResponse.metaobject_id,
             customer_id |-> "c2"]
InitialCaches ==
  {None, Some(JSONstringify(<<TempPet>>)), Some(JSONstringify(<<OtherPet>>)),
   Some(JSONstringify(<<OtherPet, TempPet>>))}

\* updateLocalStorageCache whose fresh pets are appended to the whole cache
updateLocalStorageCache_append(ls, component, pets, customerId) ==
  [ls EXCEPT !.customer_pets = Some(JSONstringify(AllPets(ls) \o pets))]

\* updateLocalStorageCache of PetList and of PetSelector; only PetSelector
\* gives the fresh pets the customer's id
updateLocalStorageCache(ls, component, pets, customerId) ==
  LET allPets == AllPets(ls)
      otherPets == FilterSeq(allPets, [i \in DOMAIN allPets |->
                                         allPets[i].customer_id # customerId])
      fresh == IF component = "pet_selector"
                 THEN [i \in DOMAIN pets |->
                         [pets[i] EXCEPT !.customer_id = customerId]]
                 ELSE pets
  IN  [ls EXCEPT !.customer_pets = Some(JSONstringify(otherPets \o fresh))]

\* the pets of the cache shown when the list request fails
FromCache(ls, customerId) ==
  LET allPets == AllPets(ls)
  IN  FilterSeq(allPets, [i \in DOMAIN allPets |->
        \/ allPets[i].customer_id \in {Undefined, ""}
        \/ allPets[i].customer_id = customerId])

\* the page is loaded: connectedCallback and loadPets up to its fetch
ListConnect ==
  /\ petList.loads < MaxListLoads
  /\ \E component \in ListComponents, loggedIn \in BOOLEAN :
       LET page == [NoPetList EXCEPT !.component = component,
                                     !.loggedIn = loggedIn,
                                     !.customerId = IF loggedIn THEN "c1" ELSE "",
                                     !.loads = petList.loads + 1]
       IN  petList' =
             IF loggedIn THEN [page EXCEPT !.loading = TRUE]
             ELSE IF component = "pet_list" THEN page
             ELSE [page EXCEPT !.pets = AllPets(localStorage),
                               !.source = "cache"]
  /\ UNCHANGED <<localStorage, tabs, createRequests, clock, user, stepper, server>>

\* the fetch of loadPets settles
ListSettled ==
  /\ petList.loading
  /\ \E ok \in BOOLEAN :
       IF ok
         THEN /\ petList' = [petList EXCEPT !.loading = FALSE, !.source = "api",
                                            !.pets = APIPets(petList.customerId)]
              /\ localStorage' =
                   updateLocalStorageCache(localStorage, petList.component,
                                           APIPets(petList.customerId),
                                           petList.customerId)
         ELSE /\ petList' = [petList EXCEPT !.loading = FALSE, !.source = "cache",
                               !.pets = FromCache(localStorage, petList.customerId)]
              /\ UNCHANGED localStorage
  /\ UNCHANGED <<tabs, createRequests, clock, user, stepper, server>>

\* handleDelete that keeps the pet chosen first while the modal is open
handleDelete_keepFirst(pl, petId) ==
  LET found == {i \in DOMAIN pl.pets : pl.pets[i].id = petId}
      pet == pl.pets[CHOOSE i \in found : \A j \in found : i <= j]
  IN  IF found = {} THEN pl
      ELSE IF pl.petToDelete # None THEN [pl EXCEPT !.modal = TRUE]
      ELSE [pl EXCEPT !.petToDelete = Some(pet), !.modal = TRUE]

\* handleDelete and showDeleteModal
handleDelete(pl, petId) ==
  LET found == {i \in DOMAIN pl.pets : pl.pets[i].id = petId}
      pet == pl.pets[CHOOSE i \in found : \A j \in found : i <= j]
  IN  IF found = {} THEN pl
      ELSE [pl EXCEPT !.petToDelete = Some(pet), !.modal = TRUE]

hideDeleteModal(pl) == [pl EXCEPT !.modal = FALSE, !.petToDelete = None]

\* the visitor clicks the delete button of a displayed pet
ClickDelete ==
  /\ petList.component = "pet_list"
  /\ \E i \in DOMAIN petList.pets :
       petList' = [handleDelete(petList, petList.pets[i].id)
                     EXCEPT !.chosen = Some(petList.pets[i].id)]
  /\ UNCHANGED <<localStorage, tabs, createRequests, clock, user, stepper, server>>

\* the visitor clicks Cancel or outside the modal
CancelDelete ==
  /\ petList.modal
  /\ petList' = hideDeleteModal(petList)
  /\ UNCHANGED <<localStorage, tabs, createRequests, clock, user, stepper, server>>

\* the visitor clicks Delete in the modal: confirmDelete up to its fetch
ConfirmDelete ==
  /\ petList.modal
  /\ Len(petList.deletes) < MaxDeletes
  /\ petList' =
       IF petList.petToDelete = None THEN petList
       ELSE [hideDeleteModal(petList) EXCEPT !.deletes =
               Append(@, [id |-> petList.petToDelete[1].id,
                          outcome |-> "pending"])]
  /\ UNCHANGED <<localStorage, tabs, createRequests, clock, user, stepper, server>>

\* deletePetFromLocalStorage
deletePetFromLocalStorage(ls, petId) ==
  LET pets == AllPets(ls)
  IN  [ls EXCEPT !.customer_pets =
         Some(JSONstringify(FilterSeq(pets, [i \in DOMAIN pets |->
                                               pets[i].id # petId])))]

\* confirmDelete that keeps the pet when the request fails
AfterDelete_keepOnFailure(b, petId, ok) ==
  IF ok
    THEN [ls |-> deletePetFromLocalStorage(b.ls, petId),
          pets |-> FilterSeq(b.pets, [i \in DOMAIN b.pets |->
                                        b.pets[i].id # petId])]
    ELSE b

\* confirmDelete from the settling of its fetch: both branches remove the pet
\* from the cache and from this.pets
AfterDelete(b, petId, ok) ==
  [ls |-> deletePetFromLocalStorage(b.ls, petId),
   pets |-> FilterSeq(b.pets, [i \in DOMAIN b.pets |-> b.pets[i].id # petId])]

\* a DELETE request settles; the proxy can only delete what the store has
DeleteSettled ==
  \E k \in DOMAIN petList.deletes, ok \in BOOLEAN :
    LET petId == petList.deletes[k].id
        after == AfterDelete([ls |-> localStorage, pets |-> petList.pets],
                             petId, ok)
    IN  /\ petList.deletes[k].outcome = "pending"
        /\ ok => \E i \in Ids : Gid(i) = petId /\ metaobjects[i] # None
        /\ metaobjects' = [i \in Ids |->
                             IF ok /\ Gid(i) = petId THEN None
                                                      ELSE metaobjects[i]]
        /\ localStorage' = after.ls
        /\ petList' = [petList EXCEPT
                         !.pets = after.pets,
                         !.deletes[k].outcome = IF ok THEN "ok" ELSE "failed"]
        /\ UNCHANGED <<variant, customerPets, nextId, upsets, req>>
        /\ UNCHANGED <<tabs, createRequests, clock, user, stepper>>

\* customer c1 has ListedPets pet profiles in the store
ListInit ==
  /\ variant = "part_003"
  /\ metaobjects = [i \in Ids |-> IF i <= ListedPets
                                    THEN Some(InitialFields(variant)) ELSE None]
  /\ customerPets = [c \in ExistingCustomers |->
                       IF c = "c1" THEN Some(JSONstringify([i \in 1..ListedPets |-> i]))
                                   ELSE None]
  /\ nextId = ListedPets + 1
  /\ upsets = 0
  /\ req = [r \in Slots |-> IdleRequest]
  /\ localStorage \in {[EmptyStorage EXCEPT !.customer_pets = c] :
                         c \in InitialCaches}
  /\ tabs = [t \in Tabs |-> ClosedTab]
  /\ createRequests = <<>>
  /\ clock = 0
  /\ user = [loads |-> 0, clicks |-> 0, saves |-> 0]
  /\ petList = NoPetList
  /\ stepper = NoStepper

ListNext ==
  \/ ListConnect
  \/ ListSettled
  \/ ClickDelete
  \/ CancelDelete
  \/ ConfirmDelete
  \/ DeleteSettled

ListSpec == ListInit /\ [][ListNext]_vars

(* ===================== properties of the proxy ========================= *)
Done(r) == req[r].pc = "done"
Arrivals == {r \in Slots : req[r].pc # "idle"}
\* the response of an answered request
Resp(r) == req[r].sent[1]
\* request s was answered before request r arrived
Before(s, r) == s < r /\ s \in req[r].doneBefore
\* r and s were in flight at the same time
Overlap(r, s) ==
  /\ r # s /\ r \in Arrivals /\ s \in Arrivals
  /\ ~Before(r, s) /\ ~Before(s, r)
Creates == {r \in Slots : req[r].kind = "create"}
Lists == {r \in Slots : req[r].kind = "list"}
Deletes == {r \in Slots : req[r].kind = "delete"}
Succeeded(r) == Done(r) /\ Len(req[r].sent) = 1 /\ Resp(r).status = 200
\* the ids of the pets a list response carries, in order
ListedIds(r) == [i \in DOMAIN Resp(r).pets[1] |-> Resp(r).pets[1][i].id]
\* the ids in a customer's index in the upstream store
IndexOf(c) ==
  IF c \in ExistingCustomers /\ customerPets[c] # None
    THEN JSONparse(customerPets[c][1]) ELSE <<>>
Elems(s) == {s[i] : i \in DOMAIN s}

\* a List that arrives right after create request c was answered, for the same
\* customer, with nothing else in flight during either and no upstream fault
\* during either
ListsRightAfter(c) ==
  {l \in Lists :
     /\ l = c + 1 /\ Before(c, l) /\ Done(l)
     /\ req[l].customer_id = req[c].customer_id
     /\ req[l].faults = <<>> /\ req[c].faults = <<>>
     /\ \A o \in Slots \ {c, l} : ~Overlap(o, c) /\ ~Overlap(o, l)}

\* C1: after a Create that returned success with an identifier for customer c
\* (nothing else for c in flight), an immediately following List for c returns
\* a pet list in which that identifier appears exactly once.
C1_CreatedIsListedOnce ==
  \A c \in Creates : Succeeded(c) =>
    \A l \in ListsRightAfter(c) :
      /\ Resp(l).status = 200
      /\ Resp(l).pets # None
      /\ Count(ListedIds(l), Resp(c).metaobject_id) = 1

\* two successful creates for the same customer whose link steps interleaved:
\* neither read an index that held the other's identifier
InterleavedLinks(a, b) ==
  /\ a \in Creates /\ b \in Creates /\ a # b
  /\ Succeeded(a) /\ Succeeded(b)
  /\ req[a].customer_id = req[b].customer_id
  /\ req[a].customer_id \in ExistingCustomers
  /\ req[a].faults = <<>> /\ req[a].rejected = <<>>
  /\ req[b].faults = <<>> /\ req[b].rejected = <<>>
  /\ req[b].metaobjectId \notin Elems(req[a].petIds)
  /\ req[a].metaobjectId \notin Elems(req[b].petIds)

\* C2: when two Create requests for the same customer both read the customer's
\* index before either writes it back, both return success and the index never
\* holds both new identifiers: one entry is lost.
C2_InterleavedCreatesLoseEntry ==
  \A a, b \in Slots : InterleavedLinks(a, b) =>
    ~(/\ req[a].metaobjectId \in Elems(IndexOf(req[a].customer_id))
      /\ req[b].metaobjectId \in Elems(IndexOf(req[a].customer_id)))

C2_Witness ==
  \E a, b \in Slots :
    /\ InterleavedLinks(a, b)
    /\ req[a].metaobjectId \notin Elems(IndexOf(req[a].customer_id))
    /\ req[b].metaobjectId \in Elems(IndexOf(req[a].customer_id))

\* C3: after a Delete(petId) has returned success, every later List that returns
\* a pet list has no entry for petId.
C3_DeletedNeverListed ==
  \A d \in Deletes, l \in Lists :
    (Succeeded(d) /\ Before(d, l) /\ Succeeded(l)) =>
      req[d].petId \notin Elems(ListedIds(l))

C3_Witness ==
  \E d \in Deletes, l \in Lists :
    /\ Succeeded(d) /\ Before(d, l) /\ Succeeded(l)
    /\ req[d].petId \in Elems(req[l].petIds)
    /\ req[d].petId \in Elems(IndexOf(req[l].customer_id))

\* the identifiers of the index a List read, without those that did not resolve
ResolvedIds(l) ==
  FilterSeq(req[l].petIds, [i \in DOMAIN req[l].petIds |-> i \in req[l].resolved])

\* C4: when an indexed identifier resolves to no object, or its fetch fails,
\* List still answers successfully and omits exactly the identifiers that did
\* not resolve.
C4_ListOmitsUnresolved ==
  \A l \in Lists : (Done(l) /\ req[l].petIds # <<>>) =>
    /\ Len(req[l].sent) = 1
    /\ Resp(l).status = 200
    /\ Resp(l).pets # None
    /\ ListedIds(l) = ResolvedIds(l)

C4_Witness ==
  \E l \in Lists :
    /\ Done(l) /\ Len(req[l].petIds) = 2
    /\ Cardinality(req[l].resolved) = 1
    /\ req[l].faults # <<>>
    /\ Len(ListedIds(l)) = 1

\* a step taken by a Delete request: its arrival or the reply to its mutation
DeleteStep ==
  \E r \in Slots : req'[r].kind = "delete" /\ req'[r] # req[r]

\* C5: Delete(petId) performs only the upstream object deletion and leaves
\* every customer's pet-ID index unchanged, so the deleted identifier stays in
\* its owner's index as a dangling reference.
C5_DeleteLeavesIndex ==
  [][DeleteStep =>
       /\ customerPets' = customerPets
       /\ \A r \in Deletes : (~Done(r) /\ Succeeded(r)') =>
            /\ metaobjects'[req[r].petId] = None
            /\ \A i \in Ids \ {req[r].petId} : metaobjects'[i] = metaobjects[i]]_vars

C5_Witness ==
  \E d \in Deletes, c \in ExistingCustomers :
    /\ Succeeded(d)
    /\ req[d].petId \in Elems(IndexOf(c))
    /\ metaobjects[req[d].petId] = None
    /\ Resp(d).deleted_id = req[d].petId

\* a Create request whose body lacks customer_id or pet_data
LacksField(r) ==
  /\ r \in Creates
  /\ req[r].customer_id = Undefined \/ req[r].pet_data = None

\* C6: a Create request that lacks customer_id or lacks pet_data is answered
\* with HTTP 400 and an error message, and no upstream call is made.
C6_MissingFieldIs400 ==
  \A r \in Slots : LacksField(r) =>
    /\ Done(r)
    /\ Len(req[r].sent) = 1
    /\ Resp(r).status = 400
    /\ Resp(r).error # <<>>
    /\ req[r].calls = <<>>

\* a Create request whose metaobjectCreate mutation the upstream rejected
CreateRejected(r) ==
  /\ r \in Creates /\ Done(r)
  /\ req[r].rejected # <<>>
  /\ req[r].metaobjectId = 0

\* C7: when the upstream rejects the create-object mutation with validation
\* errors, Create answers HTTP 400 with the upstream's first error message
\* unchanged, and the customer's index is neither read nor written.
C7_ValidationErrorIs400 ==
  \A r \in Slots : CreateRejected(r) =>
    /\ Len(req[r].sent) = 1
    /\ Resp(r).status = 400
    /\ Resp(r).error = req[r].rejected[1][1].message
    /\ \A i \in DOMAIN req[r].calls :
         req[r].calls[i].op \notin {"customerMetafield", "customerUpdate"}

C7_Witness ==
  \E r \in Slots :
    /\ CreateRejected(r)
    /\ Len(req[r].rejected[1]) = 2
    /\ Resp(r).error = TypeInvalid.message
    /\ req[r].customer_id \in ExistingCustomers
    /\ IndexOf("c1") # <<>>

\* an answered request one of whose upstream calls failed, other than a
\* per-identifier fetch of List
UpstreamFailed(r) ==
  /\ Done(r) /\ req[r].faults # <<>>
  /\ r \in Lists => req[r].petIds = <<>>

\* the texts the upstream put in a failed reply
UpstreamTexts(reply) ==
  ({reply.status, reply.text} \cup Elems(reply.errors)) \ {"", "200"}

MalformedUpdateReply(r) ==
  /\ r \in Creates
  /\ Len(req[r].calls) = 3
  /\ req[r].faults[1] = Malformed

\* the property of response.data the handler reads first after the failed call
PropertyRead(r) ==
  IF r \in Deletes THEN "metaobjectDelete"
  ELSE IF r \in Creates /\ Len(req[r].calls) = 1 THEN "metaobjectCreate"
  ELSE "customer"

C9_ExactlyOneResponse ==
  /\ [](\A r \in Slots : /\ Len(req[r].sent) <= 1
                         /\ Done(r) <=> Len(req[r].sent) = 1)
  /\ \A r \in Slots : (req[r].pc # "idle") ~> (Done(r) /\ Len(req[r].sent) = 1)

C9_Witness ==
  /\ \A r \in Slots : Done(r) /\ Len(req[r].sent) = 1
  /\ \E r \in Slots : Resp(r).status = 500
  /\ \E r \in Slots : Resp(r).status = 400

\* no two calls of the request are the same call
NoRepeatedCall(r) ==
  \A i, j \in DOMAIN req[r].calls :
    (i # j /\ req[r].calls[i].op = req[r].calls[j].op) =>
      req[r].calls[i].arg # req[r].calls[j].arg

\* C10 as stated: every request performs at most two upstream calls, one after
\* the other, and never repeats a call.
C10_AtMostTwoCalls ==
  \A r \in Slots :
    /\ Len(req[r].calls) <= 2
    /\ req[r].peak <= 1
    /\ NoRepeatedCall(r)

CallOps(r) == [i \in DOMAIN req[r].calls |-> req[r].calls[i].op]
CreateCallOrder == <<"metaobjectCreate", "customerMetafield", "customerUpdate">>

\* C10 (amended): Delete performs one upstream call; Create performs at most
\* three, one after the other (create-object, index read, index write); List
\* performs one index read and then one fetch per identifier of the index, all
\* issued together; no request repeats a call.
C10_CallsPerRequest ==
  \A r \in Arrivals :
    /\ NoRepeatedCall(r)
    /\ r \in Deletes => CallOps(r) = <<"metaobjectDelete">> /\ req[r].peak = 1
    /\ r \in Creates =>
         /\ Len(req[r].calls) <= 3
         /\ CallOps(r) = SubSeq(CreateCallOrder, 1, Len(req[r].calls))
         /\ req[r].peak <= 1
    /\ r \in Lists =>
         /\ Len(req[r].calls) = 1 + Len(req[r].petIds)
         /\ CallOps(r)[1] = "customerMetafields"
         /\ req[r].peak = IF req[r].petIds = <<>> THEN 1 ELSE Len(req[r].petIds)

C10_Witness ==
  /\ \E r \in Creates : Succeeded(r) /\ Len(req[r].calls) = 3
  /\ \E l \in Lists : Succeeded(l) /\ Len(req[l].calls) = 3 /\ req[l].peak = 2

\* the object the upstream had when the fetch of position i of List l completed
FetchedObject(l, i) ==
  LET k == CHOOSE j \in DOMAIN req[l].fetched : req[l].fetched[j].pos = i
  IN req[l].fetched[k].object

\* the positions of the index List l read whose identifier resolved, ascending
KeptPositions(l) ==
  FilterSeq([i \in DOMAIN req[l].petIds |-> i],
            [i \in DOMAIN req[l].petIds |-> FetchedObject(l, i) # None])

\* C11: List(c) returns the profiles of exactly those identifiers in c's index
\* that resolve, one entry per index occurrence and in the order of the index,
\* whatever the order in which the fetches complete.
C11_ListInIndexOrder ==
  \A l \in Lists : (Succeeded(l) /\ req[l].petIds # <<>>) =>
    LET pets == Resp(l).pets[1]
        kept == KeptPositions(l)
    IN /\ Len(pets) = Len(kept)
       /\ \A k \in DOMAIN pets :
            LET object == FetchedObject(l, kept[k])[1]
            IN /\ pets[k].id = req[l].petIds[kept[k]]
               /\ pets[k].name = object.name
               /\ pets[k].type = object.type
               /\ pets[k].birthday = object.birthday
               /\ pets[k].breed = object.breed
               /\ pets[k].weight = object.weight
               /\ pets[k].allergies = JSONparse(object.allergies)

C11_Witness ==
  \E l \in Lists :
    /\ Succeeded(l) /\ Len(req[l].petIds) = 2
    /\ Len(Resp(l).pets[1]) = 2
    /\ req[l].fetched[1].pos = 2
    /\ Resp(l).pets[1][1].name # Resp(l).pets[1][2].name

\* C12: each pet-profile identifier occurs in at most one customer's index, and
\* at most once within that index.
C12_IdInOneIndexOnce ==
  \A id \in Ids :
    /\ \A c \in ExistingCustomers : Count(IndexOf(c), id) <= 1
    /\ \A c, d \in ExistingCustomers :
         (c # d /\ id \in Elems(IndexOf(c))) => id \notin Elems(IndexOf(d))

C12_Witness ==
  /\ Len(IndexOf("c1")) = 2
  /\ Len(IndexOf("c2")) = 1
  /\ \E a, b \in Creates : a # b /\ Succeeded(a) /\ Succeeded(b)

\* a successful Create c and a later successful List l for the same customer
\* whose entry k is the pet c created
ListedEntryOf(c, l, k) ==
  /\ c \in Creates /\ l \in Lists
  /\ Succeeded(c) /\ Succeeded(l) /\ Before(c, l)
  /\ req[l].customer_id = req[c].customer_id
  /\ k \in DOMAIN Resp(l).pets[1]
  /\ Resp(l).pets[1][k].id = Resp(c).metaobject_id

\* C13: for a pet created with name, type, birthday, breed, weight and
\* allergies, a later List for the same customer returns an entry with the
\* submitted name, type, birthday, breed and weight (an absent birthday or breed
\* as the empty string) and the submitted allergies (absent: the empty list).
C13_FieldsRoundTrip ==
  \A c, l \in Slots : \A k \in Ids :
    ListedEntryOf(c, l, k) =>
      LET pet == Resp(l).pets[1][k]
          pd == req[c].pet_data[1]
      IN /\ pet.name = pd.name
         /\ pet.type = pd.type
         /\ pet.weight = pd.weight
         /\ pet.birthday = (IF pd.birthday = Undefined THEN "" ELSE pd.birthday)
         /\ pet.breed = (IF pd.breed = Undefined THEN "" ELSE pd.breed)
         /\ pet.allergies = (IF pd.allergies = None THEN <<>> ELSE pd.allergies[1])

C13_Witness ==
  \E c, l \in Slots : \E k \in Ids :
    /\ ListedEntryOf(c, l, k)
    /\ req[c].pet_data[1].birthday = Undefined
    /\ req[c].pet_data[1].allergies = None
    /\ Resp(l).pets[1][k].birthday = ""
    /\ Resp(l).pets[1][k].allergies = <<>>

\* C14: a health-boost value supplied in a Create request
\* (pet_data.health_boost) is stored on the created profile and is returned in
\* that pet's entry by a later List for the same customer.
C14_HealthBoostReturned ==
  \A c, l \in Slots : \A k \in Ids :
    (ListedEntryOf(c, l, k) /\ req[c].pet_data[1].health_boost # Undefined) =>
      /\ Resp(l).pets[1][k].healthBoost = Some(req[c].pet_data[1].health_boost)
      /\ FetchedObject(l, CHOOSE i \in DOMAIN req[l].petIds :
                            req[l].petIds[i] = Resp(c).metaobject_id)[1].health_boost
           = req[c].pet_data[1].health_boost

\* C15: a Create request whose customer_id does not identify an existing
\* upstream customer is never answered with success and leaves no pet profile
\* created for it.
C15_UnknownCustomerRejected ==
  \A r \in Creates :
    (req[r].customer_id = UnknownCustomer /\ req[r].pet_data # None) =>
      /\ ~Succeeded(r)
      /\ Done(r) => (req[r].metaobjectId = 0 \/ metaobjects[req[r].metaobjectId] = None)

(* ================== properties of the theme's components =============== *)
\* handleSubmit is called on the page of tab t in this step
SubmitCalled(t) ==
  /\ tabs'[t].load = tabs[t].load
  /\ tabs'[t].calls = tabs[t].calls + 1

\* handleSubmit returns on the page of tab t in this step
SubmitReturned(t) ==
  /\ tabs'[t].load = tabs[t].load
  /\ tabs'[t].submit = 0
  /\ (tabs[t].submit > 0 \/ tabs'[t].calls = tabs[t].calls + 1)

\* the pets of the 'customer_pets' item
CachedPets(ls) ==
  JSONparse(IF ls.customer_pets = None THEN JSONstringify(<<>>)
                                       ELSE ls.customer_pets[1])

\* C16: when the customer-logged-in attribute of the form or stepper is not
\* 'true', a submission fails with the error 'You must be logged in to create
\* a pet profile.', sends no create request and leaves the 'customer_pets'
\* item as it was.
C16_NotLoggedInSubmitFails ==
  [][\A t \in Tabs :
       (SubmitCalled(t) /\ ~tabs[t].loggedIn)
         => /\ tabs'[t].error = Some(MustLogIn)
            /\ tabs'[t].result = "rejected"
            /\ ~tabs'[t].success
            /\ tabs'[t].submit = 0
            /\ createRequests' = createRequests
            /\ localStorage'.customer_pets = localStorage.customer_pets]_vars

\* the simple form was submitted on a page without a logged-in customer
C16_Witness ==
  \E t \in Tabs :
    /\ tabs[t].version = "pet_profile_form"
    /\ ~tabs[t].loggedIn
    /\ tabs[t].calls = 1
    /\ tabs[t].error = Some(MustLogIn)
    /\ createRequests = <<>>
    /\ localStorage.customer_pets = None

\* C17: for a logged-in customer, in every form and stepper version, when the
\* create request fails (the fetch rejects or the response is not OK)
\* submitPetData appends the pet to 'customer_pets' with a temporary id and
\* the customer's id and resolves with local_only = true.
C17_FallbackInEveryVersion ==
  [][\A t \in Tabs :
       (/\ tabs[t].submit > 0
        /\ SubmitReturned(t)
        /\ createRequests'[tabs[t].submit].outcome = "failed")
         => /\ tabs'[t].result = "local_only"
            /\ CachedPets(localStorage') =
                 Append(CachedPets(localStorage),
                        [name |-> FormPet.name, id |-> "temp",
                         customer_id |-> tabs[t].customerId])]_vars

\* C18: no create request for pending signup data is sent while an earlier one
\* for the same data is still in progress, whichever components and page
\* loads look at the data.
C18_NoSecondRequestInProgress ==
  \A i \in DOMAIN createRequests : ~createRequests[i].during

\* the pending data a page load finds in localStorage and may submit
StoredSources ==
  (IF localStorage.pending_pet_profile # None
     THEN {PendingProfileSource} ELSE {})
  \cup
  (IF /\ localStorage.pet_signup_pending_data # None
      /\ ~TooOld(JSONparseObject(localStorage.pet_signup_pending_data[1]))
     THEN {StepperSource(JSONparseObject(localStorage.pet_signup_pending_data[1]))}
     ELSE {})

\* the completion component has submitted the data and the submission failed
AutoSubmitFailed(source) ==
  \E i \in DOMAIN createRequests :
    /\ createRequests[i].source = source
    /\ createRequests[i].by = "completion"
    /\ createRequests[i].outcome = "failed"

\* C19: when the automatic submission of pending data has failed, the data is
\* still in localStorage and the next page the logged-in customer loads with
\* the completion component submits it again.
C19_FailedPendingIsRetried ==
  [][\A t \in Tabs : \A source \in StoredSources :
       (/\ tabs'[t].load > tabs[t].load
        /\ tabs'[t].completion /\ tabs'[t].loggedIn /\ tabs'[t].customerId # ""
        /\ AutoSubmitFailed(source)
        /\ ~InProgress(createRequests, source))
         => \E i \in DOMAIN createRequests' :
              /\ i > Len(createRequests)
              /\ createRequests'[i].source = source]_vars

\* C20: when the submission made by the stepper's automatic submit after the
\* login, or by its retry button, fails, the saved signup data stays in
\* localStorage, the pet_signup parameter stays in the URL and the retry
\* button is shown.
C20_ClearedOnlyAfterSuccess ==
  [][\A t \in Tabs :
       (/\ localStorage.pet_signup_pending_data # None
        /\ SubmitReturned(t)
        /\ tabs'[t].caller \in {"auto", "retry"}
        /\ tabs'[t].result = "rejected")
         => /\ localStorage'.pet_signup_pending_data =
                 localStorage.pet_signup_pending_data
            /\ tabs'[t].pet_signup = tabs[t].pet_signup
            /\ tabs'[t].retryButton]_vars

\* the saved signup data is in localStorage and more than one hour old
StaleSaved ==
  /\ localStorage.pet_signup_pending_data # None
  /\ clock - JSONparseObject(localStorage.pet_signup_pending_data[1]).timestamp
       > OneHour

SavedData == JSONparseObject(localStorage.pet_signup_pending_data[1])

\* the completion component of a page loaded in tab t reads the saved data
CompletionReads(t) ==
  /\ tabs'[t].load > tabs[t].load
  /\ tabs'[t].completion /\ tabs'[t].loggedIn /\ tabs'[t].customerId # ""

\* the stepper of tab t reads the saved data after the login
StepperReads(t) ==
  /\ tabs[t].authReturn = "delay" /\ tabs'[t].authReturn = "done"
  /\ tabs[t].loggedIn /\ tabs[t].customerId \notin {"", "null"}

\* no create request for the saved data is sent and no form is filled from it
SavedNotUsed(t) ==
  /\ \A i \in DOMAIN createRequests' :
       i > Len(createRequests)
         => createRequests'[i].source # StepperSource(SavedData)
  /\ tabs'[t].form = None
  /\ tabs'[t].calls = 0

\* C21 (as stated): saved signup data more than one hour old is never
\* submitted nor used to fill the form, and whenever a component reads it the
\* component removes it from localStorage.
C21_StaleAlwaysRemoved ==
  [][\A t \in Tabs :
       (StaleSaved /\ (CompletionReads(t) \/ StepperReads(t)))
         => /\ SavedNotUsed(t)
            /\ localStorage'.pet_signup_pending_data = None]_vars

\* C21 (amended): saved signup data more than one hour old is never submitted
\* nor used to fill the form; the stepper removes it when it reads it, and the
\* completion component removes it unless the data is marked as processing,
\* in which case it leaves the data as it is.
C21_StaleNeverUsed ==
  [][\A t \in Tabs :
       (StaleSaved /\ (CompletionReads(t) \/ StepperReads(t)))
         => /\ SavedNotUsed(t)
            /\ IF CompletionReads(t) /\ SavedData.processing
                 THEN localStorage'.pet_signup_pending_data =
                        localStorage.pet_signup_pending_data
                 ELSE localStorage'.pet_signup_pending_data = None]_vars

\* the visitor came back from the login more than an hour after the form was
\* saved: the data is gone and nothing was submitted
C21_Witness ==
  \E t \in Tabs :
    /\ tabs[t].error = Some(FormDataNotFound)
    /\ user.saves = 1 /\ user.clicks = 0
    /\ clock > OneHour
    /\ localStorage.pet_signup_pending_data = None
    /\ createRequests = <<>>

(* ==================== further properties of the proxy ================== *)
\* C27: a Create request that is answered with an error leaves the upstream
\* store as it was: no pet profile created by that request is in the store
\* and no customer's index holds its identifier.
C27_ErroredCreateLeavesNoTrace ==
  \A r \in Creates :
    (Done(r) /\ Resp(r).status >= 400) =>
      \/ req[r].metaobjectId = 0
      \/ /\ metaobjects[req[r].metaobjectId] = None
         /\ \A c \in ExistingCustomers :
              req[r].metaobjectId \notin Elems(IndexOf(c))

(* ------------------- properties of the pet list ------------------------ *)
\* the ids of a sequence of displayed or cached pets
PetIds(pets) == {pets[i].id : i \in DOMAIN pets}
\* a sequence of pets without the pets of one id
Without(pets, petId) ==
  FilterSeq(pets, [i \in DOMAIN pets |-> pets[i].id # petId])
\* how often an id occurs in a sequence of pets
Occurrences(pets, petId) ==
  Cardinality({i \in DOMAIN pets : pets[i].id = petId})
\* this step sends a DELETE request
DeleteSent == Len(petList'.deletes) > Len(petList.deletes)
\* this step is within one load of the page
SamePage ==
  /\ petList'.loads = petList.loads
  /\ petList'.loading = petList.loading
\* the DELETE requests that settle in this step
SettlingDeletes ==
  {k \in DOMAIN petList.deletes :
     /\ k \in DOMAIN petList'.deletes
     /\ petList.deletes[k].outcome = "pending"
     /\ petList'.deletes[k].outcome # "pending"}

\* C22: the pet list sends a delete request only from the open modal, for the
\* pet whose delete button was clicked last; a pet leaves the displayed list,
\* the cache or the store within one load of the page only when a delete
\* request for it settles; closing the modal without confirming clears the
\* pending pet and sends and removes nothing, and no pet is pending while the
\* modal is closed.
C22_DeleteOnlyAfterConfirm ==
  [][/\ DeleteSent =>
          /\ petList.modal
          /\ petList.chosen # None
          /\ petList.petToDelete # None
          /\ petList.petToDelete[1].id = petList.chosen[1]
          /\ petList'.deletes =
               Append(petList.deletes,
                      [id |-> petList.chosen[1], outcome |-> "pending"])
     /\ (SamePage /\ SettlingDeletes = {}) =>
          /\ petList'.pets = petList.pets
          /\ localStorage' = localStorage
          /\ metaobjects' = metaobjects
     /\ \A k \in SettlingDeletes :
          /\ petList'.pets = Without(petList.pets, petList.deletes[k].id)
          /\ AllPets(localStorage') =
               Without(AllPets(localStorage), petList.deletes[k].id)
     /\ (SamePage /\ petList.modal /\ ~petList'.modal /\ ~DeleteSent) =>
          /\ petList'.petToDelete = None
          /\ petList'.deletes = petList.deletes
     /\ ~petList'.modal => petList'.petToDelete = None
    ]_vars

\* a second pet was chosen while the modal was open, the modal was confirmed,
\* and the request for the pet chosen last was answered
C22_Witness ==
  /\ Len(petList.pets) = 1
  /\ petList.pets[1].id = Gid(1)
  /\ Len(petList.deletes) = 1
  /\ petList.deletes[1] = [id |-> Gid(2), outcome |-> "ok"]
  /\ petList.chosen = Some(Gid(2))
  /\ metaobjects[2] = None
  /\ metaobjects[1] # None

\* C23: when a confirmed delete settles, with success or with failure, the pet
\* is absent from the displayed list and from the 'customer_pets' cache, and
\* the displayed list and the cache keep every other pet, in order.
C23_DeletedPetGoneOthersStay ==
  [][\A k \in SettlingDeletes :
       LET petId == petList.deletes[k].id
       IN  /\ petId \notin PetIds(petList'.pets)
           /\ petId \notin PetIds(AllPets(localStorage'))
           /\ petList'.pets = Without(petList.pets, petId)
           /\ AllPets(localStorage') = Without(AllPets(localStorage), petId)
    ]_vars

\* a delete failed: its pet is neither displayed nor cached, and the other pet
\* of the customer is still displayed and cached
C23_Witness ==
  /\ Len(petList.deletes) = 1
  /\ petList.deletes[1] = [id |-> Gid(1), outcome |-> "failed"]
  /\ metaobjects[1] # None
  /\ PetIds(petList.pets) = {Gid(2)}
  /\ Gid(1) \notin PetIds(AllPets(localStorage))
  /\ Gid(2) \in PetIds(AllPets(localStorage))

\* C28: once the list was loaded from the API and nothing was deleted since,
\* the cache holds each listed pet exactly once, and refreshing the cache with
\* the same list again leaves it unchanged; a refresh leaves the entries of
\* other customers as they were.
C28_RefreshReplaces ==
  [][/\ (petList'.source = "api" /\ petList'.deletes = <<>>) =>
          /\ \A i \in DOMAIN petList'.pets :
               Occurrences(AllPets(localStorage'), petList'.pets[i].id) = 1
          /\ updateLocalStorageCache(localStorage', petList'.component,
                                     petList'.pets, petList'.customerId)
               = localStorage'
     /\ (petList.loading /\ ~petList'.loading) =>
          LET before == AllPets(localStorage)
              after == AllPets(localStorage')
          IN  FilterSeq(after, [i \in DOMAIN after |->
                                  after[i].customer_id = "c2"])
              = FilterSeq(before, [i \in DOMAIN before |->
                                     before[i].customer_id = "c2"])
    ]_vars

\* the pet the fallback saved for customer c1 is in the cache
TempCached == TempPet.id \in PetIds(AllPets(localStorage))
\* this step settles a delete of that pet
TempDeleted == \E k \in SettlingDeletes : petList.deletes[k].id = TempPet.id

\* C29: a pet saved only locally stays in the 'customer_pets' cache through
\* every step that does not delete it, and is displayed whenever the list of
\* its customer has been loaded.
C29_TempPetKept ==
  [][(TempCached /\ ~TempDeleted) =>
       /\ TempCached'
       /\ (petList.loading /\ ~petList'.loading /\ petList'.customerId = "c1")
            => TempPet.id \in PetIds(petList'.pets)
    ]_vars

(* ======================= the steps of the stepper ====================== *)
(* The PetSignupStepper page by page: the step panels, the back, next and  *)
(* submit buttons, the inputs of the steps and the dynamic question titles.*)
(* The three versions of the component are pet-signup-stepper.js, the one  *)
(* in pet-selector.js (with the image step) and the one in part_000.       *)
(***************************************************************************)
StepVersions == {"pet_signup_stepper", "pet_selector", "part_000"}

\* constructor / get totalSteps
totalSteps(version, loggedIn) ==
  IF version = "pet_signup_stepper" THEN 7
  ELSE IF version = "part_000" THEN (IF loggedIn THEN 7 ELSE 8)
  ELSE (IF loggedIn THEN 8 ELSE 9)

\* the step with the review summary
ReviewStep(version) == IF version = "pet_selector" THEN 8 ELSE 7

\* a name is the text of an input, a sequence of pieces; " " is white space
TypedNames == {<<>>, <<" ">>, <<"Buddy">>, <<" ", "Buddy">>, <<"Max">>}
SavedNames == {<<>>, <<"Buddy">>}
YourPet == <<"your pet">>

\* String.prototype.trim
RECURSIVE TrimStart(_)
TrimStart(name) ==
  IF name # <<>> /\ Head(name) = " " THEN TrimStart(Tail(name)) ELSE name
RECURSIVE TrimEnd(_)
TrimEnd(name) ==
  IF name # <<>> /\ name[Len(name)] = " "
    THEN TrimEnd(SubSeq(name, 1, Len(name) - 1)) ELSE name
Trim(name) == TrimEnd(TrimStart(name))

\* a question title of the section, with its placeholder
Placeholder == "[pet_name]"
TitleTemplate == <<"How much does ", Placeholder, " weigh?">>
\* original.replace(/\[pet_name\]/g, petName)
RECURSIVE ReplacePetName(_, _)
ReplacePetName(text, petName) ==
  IF text = <<>> THEN <<>>
  ELSE (IF Head(text) = Placeholder THEN petName ELSE <<Head(text)>>)
         \o ReplacePetName(Tail(text), petName)

\* the step panels the section renders: one for each step
StepPanels(version, loggedIn) == 1..totalSteps(version, loggedIn)

\* the page as the section renders it and the constructor leaves it: step 1
\* shown, the back and the submit button hidden
FreshStepper(version, loggedIn) ==
  [version |-> version, loggedIn |-> loggedIn, currentStep |-> 1,
   hidden |-> [k \in StepPanels(version, loggedIn) |-> k # 1],
   backHidden |-> TRUE, nextHidden |-> FALSE, submitHidden |-> TRUE,
   filled |-> [k \in StepPanels(version, loggedIn) |-> FALSE],
   petName |-> <<>>, titles |-> TitleTemplate,
   original |-> None, populated |-> FALSE, savedName |-> <<>>,
   skipped |-> FALSE]

\* updateDynamicText that sets the titles whenever it is called
updateDynamicText_always(s, name) ==
  LET newName == IF Trim(name) = <<>> THEN YourPet ELSE Trim(name)
      original == IF s.original = None THEN s.titles ELSE s.original[1]
  IN  [s EXCEPT !.petName = newName,
                !.original = Some(original),
                !.titles = ReplacePetName(original, newName)]

\* updateDynamicText: nothing happens when the name is this.petName already
updateDynamicText(s, name) ==
  LET newName == IF Trim(name) = <<>> THEN YourPet ELSE Trim(name)
      original == IF s.original = None THEN s.titles ELSE s.original[1]
  IN  IF newName = s.petName THEN s
      ELSE [s EXCEPT !.petName = newName,
                     !.original = Some(original),
                     !.titles = ReplacePetName(original, newName)]

\* validateStep: the image step of pet-selector.js is always valid, a step
\* without a panel never, any other step when its required inputs are filled
validateStep(s) ==
  IF s.version = "pet_selector" /\ s.currentStep = 2 THEN TRUE
  ELSE IF s.currentStep \notin DOMAIN s.hidden THEN FALSE
  ELSE s.filled[s.currentStep]

\* updateButtons that shows the submit button on the review step to everybody
updateButtons_ignoreLogin(s) ==
  [s EXCEPT !.backHidden = s.currentStep = 1,
            !.nextHidden = s.currentStep = totalSteps(s.version, s.loggedIn),
            !.submitHidden = s.currentStep # ReviewStep(s.version)]

\* updateButtons; pet-signup-stepper.js does not look at the login
updateButtons(s) ==
  IF s.version = "pet_signup_stepper"
    THEN [s EXCEPT !.backHidden = s.currentStep = 1,
                   !.nextHidden = s.currentStep = 7,
                   !.submitHidden = s.currentStep # 7]
  ELSE IF s.loggedIn
    THEN [s EXCEPT !.backHidden = s.currentStep = 1,
                   !.nextHidden = s.currentStep = ReviewStep(s.version),
                   !.submitHidden = s.currentStep # ReviewStep(s.version)]
  ELSE [s EXCEPT !.backHidden = s.currentStep = 1,
                 !.nextHidden = s.currentStep = ReviewStep(s.version) + 1,
                 !.submitHidden = TRUE]

\* the panel of a step is hidden or shown, when there is one
SetHidden(s, k, h) ==
  IF k \in DOMAIN s.hidden THEN [s EXCEPT !.hidden[k] = h] ELSE s

\* the current step is hidden, the step d further is shown, the buttons updated
MoveBy(s, d) ==
  LET left == SetHidden(s, s.currentStep, TRUE)
      moved == [left EXCEPT !.currentStep = s.currentStep + d]
  IN  updateButtons(SetHidden(moved, moved.currentStep, FALSE))

\* nextStep without its validation
nextStep_noValidate(s) ==
  MoveBy(s, 1)

\* nextStep
nextStep(s) ==
  IF ~validateStep(s) THEN s ELSE MoveBy(s, 1)

\* previousStep
previousStep(s) == MoveBy(s, -1)

\* populateFormFields, for the name and the titles
populateFormFields(s, petName) ==
  [updateDynamicText([s EXCEPT !.petName = petName], petName)
     EXCEPT !.filled[1] = petName # <<>>]

\* the page with the stepper is loaded
StepConnect ==
  /\ \E version \in StepVersions, loggedIn \in BOOLEAN :
       stepper' = FreshStepper(version, loggedIn)
  /\ UNCHANGED <<localStorage, tabs, createRequests, clock, user, petList, server>>

\* the visitor types into the name input of step 1
TypeName ==
  /\ stepper.version \in StepVersions
  /\ ~stepper.hidden[1]
  /\ \E name \in TypedNames :
       stepper' = [updateDynamicText(stepper, name)
                     EXCEPT !.filled[1] = Trim(name) # <<>>]
  /\ UNCHANGED <<localStorage, tabs, createRequests, clock, user, petList, server>>

\* the visitor fills in, or empties, the required inputs of the shown step
FillIn ==
  /\ stepper.version \in StepVersions
  /\ stepper.currentStep \in DOMAIN stepper.hidden
  /\ stepper.currentStep # 1
  /\ stepper' = [stepper EXCEPT !.filled[stepper.currentStep] = ~@]
  /\ UNCHANGED <<localStorage, tabs, createRequests, clock, user, petList, server>>

ClickNext ==
  /\ stepper.version \in StepVersions
  /\ ~stepper.nextHidden
  /\ stepper' = nextStep(stepper)
  /\ UNCHANGED <<localStorage, tabs, createRequests, clock, user, petList, server>>

ClickBack ==
  /\ stepper.version \in StepVersions
  /\ ~stepper.backHidden
  /\ stepper' = previousStep(stepper)
  /\ UNCHANGED <<localStorage, tabs, createRequests, clock, user, petList, server>>

\* the skip button of the image step, shown with the panel of that step
ClickSkipImage ==
  /\ stepper.version = "pet_selector"
  /\ ~stepper.hidden[2]
  /\ stepper' = [nextStep(stepper) EXCEPT !.skipped = TRUE]
  /\ UNCHANGED <<localStorage, tabs, createRequests, clock, user, petList, server>>

\* handleAuthenticationReturn finds saved data and populates the form
PopulateOnReturn ==
  /\ stepper.version \in AuthVersions
  /\ stepper.loggedIn
  /\ ~stepper.populated
  /\ \E petName \in SavedNames :
       stepper' = [populateFormFields(stepper, petName)
                     EXCEPT !.populated = TRUE, !.savedName = petName]
  /\ UNCHANGED <<localStorage, tabs, createRequests, clock, user, petList, server>>

StepInit ==
  /\ ServerAtRest
  /\ localStorage = EmptyStorage
  /\ tabs = [t \in Tabs |-> ClosedTab]
  /\ createRequests = <<>>
  /\ clock = 0
  /\ user = [loads |-> 0, clicks |-> 0, saves |-> 0]
  /\ petList = NoPetList
  /\ stepper = NoStepper

StepNext ==
  \/ StepConnect
  \/ TypeName
  \/ FillIn
  \/ ClickNext
  \/ ClickBack
  \/ ClickSkipImage
  \/ PopulateOnReturn

StepSpec == StepInit /\ [][StepNext]_vars

(* -------------------- properties of the stepper ------------------------ *)
\* this step stays on the page that is loaded
SameStepper ==
  /\ stepper.version \in StepVersions
  /\ stepper'.version = stepper.version
  /\ stepper'.loggedIn = stepper.loggedIn
\* this step is a navigation: the current step changes on the loaded page
Navigation == SameStepper /\ stepper'.currentStep # stepper.currentStep
\* this step is the run of populateFormFields
Populating == SameStepper /\ ~stepper.populated /\ stepper'.populated

\* C24: when populateFormFields has run with saved data that has a pet name,
\* the dynamic question title shows that name where the section has the
\* [pet_name] placeholder.
C24_TitlesShowSavedName ==
  [][(Populating /\ stepper'.savedName # <<>>) =>
       stepper'.titles = ReplacePetName(TitleTemplate, stepper'.savedName)
    ]_vars

====
